---- MODULE Spec2Model ----
(***************************************************************************)
(* Model of the bulk import engine (services/bulkImportService.js):        *)
(* detectDatabaseDuplicates, generateEmailWithSuffix, findAvailableEmail,  *)
(* processRecord and processBulkImport, running against the users and      *)
(* students tables (models/User.js, models/Student.js) of a PostgreSQL     *)
(* database (config/database.js); and of what reaches the engine through  *)
(* the API: parseCSV, validateRecords and detectInternalDuplicates         *)
(* (services/csvService.js) and the handlers validateCSV and bulkImport    *)
(* (controllers/studentController.js).                                     *)
(*                                                                         *)
(* An email is a record [local, sfx]: the string local ++ "_n" for every n *)
(* of sfx ++ "@x.com".  Two emails are the same string exactly when the    *)
(* records are equal.  String comparison in the database (=, IN, the       *)
(* unique index) is case sensitive.                                        *)
(*                                                                         *)
(* The store is the set of accounts; an account is a users row together    *)
(* with its students row, if any (students.user_id is unique):             *)
(* [email, name, student_code, phone], student_code = NoCode when the      *)
(* user has no students row.                                               *)
(*                                                                         *)
(* Specifications: Spec (one call, and the same call again), SpecFault     *)
(* (one call with a persistence call that throws), SpecApi (the two        *)
(* handlers), SpecAlloc (findAvailableEmail alone), SpecDup                *)
(* (detectInternalDuplicates alone), SpecPair (two calls that interleave)  *)
(* and SpecLive (one call or findAvailableEmail, run to its end).          *)
(***************************************************************************)
EXTENDS Integers, Sequences, FiniteSets, TLC

\* ---------------------------------------------------------------- bounds
MaxRows == 3
\* window size; the source sets 100, the model scales it down so that a
\* row list of MaxRows rows spans more than one window
BATCH_SIZE == 2
\* largest suffix of the sets of taken suffixes findAvailableEmail is run
\* against on its own
MaxTaken == 3
\* most rows of each of two calls that run together
MaxPairRows == 2

\* ------------------------------------------------------------- constants
SUFFIX_LIMIT == 1000

NoCode == "NULL"
NoPhone == "NULL"
NoEmail == [local |-> "", sfx |-> <<>>]

DUPLICATE_STRATEGIES == {"skip", "update", "suffix"}

\* ------------------------------------------------------------ input sets
Locals == {"j", "J"}
RowEmails == {[local |-> l, sfx |-> <<>>] : l \in Locals}
RowCodes == {"S1", "S2"}
RowPhones == {NoPhone, "999"}
Strategies == DUPLICATE_STRATEGIES \cup {"merge"}

\* the name of the row at position k of the file; names are never compared
\* by the engine, so every row carries its own
RowName(k) == <<"name", k>>

RowAt(k) ==
  {[email |-> e, name |-> RowName(k), student_code |-> c, phone |-> p,
    rowNumber |-> k] : e \in RowEmails, c \in RowCodes, p \in RowPhones}

RECURSIVE RowLists(_)
RowLists(n) ==
  IF n = 0 THEN {<<>>}
  ELSE LET shorter == RowLists(n - 1)
       IN shorter \cup
          {Append(s, r) : s \in {t \in shorter : Len(t) = n - 1}, r \in RowAt(n)}

Account(e, n, c, p) == [email |-> e, name |-> n, student_code |-> c, phone |-> p]

InitialStores ==
  { {},
    {Account([local |-> "j", sfx |-> <<>>], <<"name", 0>>, "S1", "111")},
    {Account([local |-> "j", sfx |-> <<>>], <<"name", 0>>, NoCode, NoPhone)},
    {Account([local |-> "J", sfx |-> <<>>], <<"name", 0>>, NoCode, NoPhone)},
    {Account([local |-> "k", sfx |-> <<>>], <<"name", 0>>, "S2", "222")} }

\* ------------------------------------------------------- string functions
\* String.prototype.toLowerCase on the characters of an email
LowerLocal(l) == IF l = "J" THEN "j" ELSE l

ToLower(email) == [email EXCEPT !.local = LowerLocal(@)]

generateEmailWithSuffix(email, suffix) ==
  [email EXCEPT !.sfx = Append(@, suffix)]

\* ------------------------------------------------------------ the tables
\* The outcome of one statement: ok = FALSE when it throws, st = the table
\* as the transaction sees it afterwards.
Ok(st) == [ok |-> TRUE, st |-> st]
Thrown(st) == [ok |-> FALSE, st |-> st]

\* User.create into a table without the unique index on email
UserCreate_NoIndex(st, email, name) ==
  Ok(st \cup {Account(email, name, NoCode, NoPhone)})

\* User.create: INSERT INTO users; the unique index on email rejects a
\* second row with the same string.
UserCreate(st, email, name) ==
  IF \E u \in st : u.email = email
  THEN Thrown(st)
  ELSE Ok(st \cup {Account(email, name, NoCode, NoPhone)})

\* Student.create for the user with that email: INSERT INTO students; the
\* unique index on student_code rejects a repeated code.
StudentCreate(st, email, code, phone) ==
  IF \E u \in st : u.student_code = code
  THEN Thrown(st)
  ELSE Ok({IF u.email = email
           THEN [u EXCEPT !.student_code = code, !.phone = phone]
           ELSE u : u \in st})

\* user.update({ name })
UserUpdate(st, email, name) ==
  Ok({IF u.email = email THEN [u EXCEPT !.name = name] ELSE u : u \in st})

\* student.update({ phone })
StudentUpdate(st, email, phone) ==
  Ok({IF u.email = email THEN [u EXCEPT !.phone = phone] ELSE u : u \in st})

\* a destroy that deletes nothing
UserDestroy_Keeps(st, email) == Ok(st)

\* user.destroy()
UserDestroy(st, email) == Ok({u \in st : u.email # email})

\* the f-th persistence call of a row: it throws when the fault is injected
\* at it (fault = f), otherwise it does what the statement does
Call(f, fault, outcome) == IF fault = f THEN Thrown(outcome.st) ELSE outcome

\* ------------------------------------------------------ duplicate index
\* User.findAll({ where: { email: IN emails }, include: Student }) and
\* Student.findAll({ where: { student_code: IN codes }, include: User }).
\* The first include names the association by the alias 'student' while
\* models/index.js declares User.hasOne(Student) as 'studentProfile'; the
\* model takes the join the include describes, users LEFT JOIN students ON
\* students.user_id = users.id.
EmailMapOf(recs, st) ==
  LET emails == {ToLower(recs[k].email) : k \in 1..Len(recs)}
      existingUsers == {u \in st : u.email \in emails}
      keys == {ToLower(u.email) : u \in existingUsers}
  IN [e \in keys |->
        LET user == CHOOSE u \in existingUsers : ToLower(u.email) = e
        IN [user |-> user.email,
            student |-> user.student_code,
            phone |-> user.phone]]

StudentCodeMapOf(recs, st) ==
  LET studentCodes == {recs[k].student_code : k \in 1..Len(recs)}
      existingStudents ==
        {u \in st : u.student_code # NoCode /\ u.student_code \in studentCodes}
  IN [c \in {u.student_code : u \in existingStudents} |->
        (CHOOSE u \in existingStudents : u.student_code = c).email]

detectDatabaseDuplicates(recs, st) ==
  [emailMap |-> EmailMapOf(recs, st),
   studentCodeMap |-> StudentCodeMapOf(recs, st)]

\* ---------------------------------------------------- suffix allocation
RECURSIVE Probe(_, _, _)
Probe(originalEmail, suffix, st) ==
  LET email == generateEmailWithSuffix(originalEmail, suffix)
  IN IF ~(\E u \in st : u.email = email) THEN email
     ELSE IF suffix + 1 > SUFFIX_LIMIT THEN NoEmail
     ELSE Probe(originalEmail, suffix + 1, st)

\* NoEmail stands for the thrown "Could not find available email"
findAvailableEmail(originalEmail, st) == Probe(originalEmail, 1, st)

\* ------------------------------------------------------- processRecord
\* What processRecord returns and leaves behind: the status and the record
\* of its result, the tables as the row's transaction sees them, whether a
\* statement of the transaction failed (PostgreSQL then ignores the
\* transaction's later statements and ends it with a rollback on COMMIT),
\* the duplicate index (update mutates the instances it holds), and whether
\* the injected fault was hit.
Result(status, email, code, st, aborted, info, hit, message) ==
  [status |-> status, email |-> email, student_code |-> code, st |-> st,
   aborted |-> aborted, info |-> info, hit |-> hit, message |-> message]

\* error.message of whatever a persistence call threw
ErrorMessage == "thrown"

CreateCase(record, info, st, fault) ==
  LET user == Call(1, fault, UserCreate(st, record.email, record.name))
      student == Call(2, fault,
                      StudentCreate(user.st, record.email,
                                    record.student_code, record.phone))
  IN IF ~user.ok
     THEN Result("error", record.email, record.student_code, st, TRUE, info,
                 fault = 1,
                 ErrorMessage)
     ELSE IF ~student.ok
     THEN Result("error", record.email, record.student_code, user.st, TRUE,
                 info, fault = 2,
                 ErrorMessage)
     ELSE Result("created", record.email, record.student_code, student.st,
                 FALSE, info, FALSE,
                 "Student created successfully")

\* skip removing the account the row collides with
SkipCase_Destroys(record, info, st) ==
  Result("skipped", record.email, record.student_code,
         {u \in st : /\ ToLower(u.email) # ToLower(record.email)
                     /\ u.student_code # record.student_code},
         FALSE, info, FALSE, "Email already exists")

SkipCase(record, info, st) ==
  Result("skipped", record.email, record.student_code, st, FALSE, info, FALSE,
         IF ToLower(record.email) \in DOMAIN info.emailMap
         THEN "Email already exists"
         ELSE "Student code already exists")

UpdateCase(record, info, st, fault) ==
  LET email == ToLower(record.email)
      isDuplicateEmail == email \in DOMAIN info.emailMap
      existingByEmail == info.emailMap[email]
  IN IF isDuplicateEmail /\ existingByEmail.student # NoCode
     THEN LET phone == IF record.phone # NoPhone THEN record.phone
                       ELSE existingByEmail.phone
              user == Call(1, fault,
                           UserUpdate(st, existingByEmail.user, record.name))
              student == Call(2, fault,
                              StudentUpdate(user.st, existingByEmail.user, phone))
              held == [info EXCEPT !.emailMap[email].phone = phone]
          IN IF ~user.ok
             THEN Result("error", record.email, record.student_code, st, TRUE,
                         info, TRUE,
                         ErrorMessage)
             ELSE IF ~student.ok
             THEN Result("error", record.email, record.student_code, user.st,
                         TRUE, held, TRUE,
                         ErrorMessage)
             ELSE Result("updated", existingByEmail.user,
                         existingByEmail.student, student.st, FALSE, held, FALSE,
                         "Student updated successfully")
     ELSE Result("skipped", record.email, record.student_code, st, FALSE, info,
                 FALSE,
                 "Email and student code mismatch - cannot update")

SuffixCase(record, info, st, committed, fault) ==
  LET isDuplicateEmail == ToLower(record.email) \in DOMAIN info.emailMap
      isDuplicateCode == record.student_code \in DOMAIN info.studentCodeMap
  IN IF isDuplicateEmail
     THEN LET newEmail == IF fault = 1 THEN NoEmail
                          ELSE findAvailableEmail(record.email, committed)
              user == Call(2, fault, UserCreate(st, newEmail, record.name))
              gone == Call(3, fault, UserDestroy(user.st, newEmail))
              student == Call(3, fault,
                              StudentCreate(user.st, newEmail,
                                            record.student_code, record.phone))
          IN IF newEmail = NoEmail
             THEN Result("error", record.email, record.student_code, st, FALSE,
                         info, fault = 1,
                         ErrorMessage)
             ELSE IF ~user.ok
             THEN Result("error", record.email, record.student_code, st, TRUE,
                         info, fault = 2,
                         ErrorMessage)
             ELSE IF isDuplicateCode
             THEN IF ~gone.ok
                  THEN Result("error", record.email, record.student_code,
                              user.st, TRUE, info, TRUE,
                              ErrorMessage)
                  ELSE Result("skipped", record.email, record.student_code,
                              gone.st, FALSE, info, FALSE,
                              "Student code already exists - cannot create with suffix")
             ELSE IF ~student.ok
             THEN Result("error", record.email, record.student_code, user.st,
                         TRUE, info, fault = 3,
                         ErrorMessage)
             ELSE Result("created_with_suffix", newEmail, record.student_code,
                         student.st, FALSE, info, FALSE,
                         "Student created with email suffix")
     ELSE Result("skipped", record.email, record.student_code, st, FALSE, info,
                 FALSE,
                 "Student code already exists")

\* st: the tables as the row's transaction sees them; committed: the tables
\* as a query outside the transaction sees them (findAvailableEmail)
processRecord(record, info, strat, st, committed, fault) ==
  LET isDuplicateEmail == ToLower(record.email) \in DOMAIN info.emailMap
      isDuplicateCode == record.student_code \in DOMAIN info.studentCodeMap
  IN IF ~isDuplicateEmail /\ ~isDuplicateCode
     THEN CreateCase(record, info, st, fault)
     ELSE CASE strat = "skip" -> SkipCase(record, info, st)
            [] strat = "update" -> UpdateCase(record, info, st, fault)
            [] strat = "suffix" -> SuffixCase(record, info, st, committed, fault)
            [] OTHER -> Result("error", record.email, record.student_code, st,
                               FALSE, info, FALSE,
                               "Invalid duplicate strategy")

\* ---------------------------------------------------------------- state
VARIABLES
  store,          \* the committed users/students tables
  records,        \* the rows given to processBulkImport
  strategy,       \* its strategy argument
  pc,             \* where processBulkImport stands
  i,              \* offset of the current window in records
  j,              \* offset of the current row in the window
  duplicateInfo,  \* the duplicate index in use
  transaction,    \* state of the row's transaction
  result,         \* what processRecord returned for the current row
  results,        \* the summary being built
  startStore,     \* the store when the current call began
  rerun,          \* TRUE in the second of two successive calls
  raised,         \* what processBulkImport threw, "none" while it has not
  csvData,        \* the csvData of the request body, NoCsv without a request
  response,       \* what the controller answered, NoResponse before it has
  suffix,         \* the suffix findAvailableEmail is at, when run on its own
  queries,        \* store queries the index has cost the current run so far
  txs,            \* the transactions the current run has opened, in order,
                  \* each with the calls that finished it: none while open
  peer,           \* the locals of a second call of processBulkImport that
                  \* is suspended at an await, NoPeer when there is none
  seen            \* the store as the queries of findAvailableEmail for the
                  \* current row see it, when two calls run

vars == <<store, records, strategy, pc, i, j, duplicateInfo, transaction,
          result, results, startStore, rerun, raised, csvData, response,
          suffix, queries, txs, peer, seen>>

\* the request and its answer, which the engine does not touch
http == <<csvData, response>>

\* a second call and what the probes of the current one see
pair == <<peer, seen>>

\* what bulkImport and processBulkImport leave alone
apart == <<http, suffix, pair>>

\* the count of index queries and the record of transactions
tally == <<queries, txs>>

NoInfo == [emailMap |-> <<>>, studentCodeMap |-> <<>>]
NoResult == [status |-> "none"]
NoResults == [total |-> 0, created |-> 0, updated |-> 0, skipped |-> 0,
              failed |-> 0, details |-> <<>>]
NoCsv == [text |-> FALSE, headers |-> {}, rows |-> <<>>]
NoResponse == [kind |-> "none"]
NoPeer == [pc |-> "none"]

Min(a, b) == IF a < b THEN a ELSE b

\* records.slice(from, from + BATCH_SIZE)
Batch(from) == SubSeq(records, from + 1, Min(from + BATCH_SIZE, Len(records)))

\* batch.slice(j + 1) once row j (0-based) is done
Remaining(from, done) == SubSeq(Batch(from), done + 2, Len(Batch(from)))

Init ==
  /\ store \in InitialStores
  /\ records \in RowLists(MaxRows)
  /\ strategy \in Strategies
  /\ pc = "idle"
  /\ i = 0
  /\ j = 0
  /\ duplicateInfo = NoInfo
  /\ transaction = "none"
  /\ result = NoResult
  /\ results = NoResults
  /\ startStore = store
  /\ rerun = FALSE
  /\ raised = "none"
  /\ csvData = NoCsv
  /\ response = NoResponse
  /\ suffix = 0
  /\ queries = 0
  /\ txs = <<>>
  /\ peer = NoPeer
  /\ seen = {}

\* processBulkImport, up to the first window: the summary is initialised
\* and the strategy validated
Enter(recs) ==
  /\ records' = recs
  /\ results' = IF strategy \in DUPLICATE_STRATEGIES
                 THEN [NoResults EXCEPT !.total = Len(recs)]
                 ELSE NoResults
  /\ pc' = IF strategy \in DUPLICATE_STRATEGIES THEN "batch" ELSE "raised"
  /\ raised' = IF strategy \in DUPLICATE_STRATEGIES THEN "none"
                ELSE "Invalid strategy"
  /\ i' = 0
  /\ j' = 0
  /\ duplicateInfo' = NoInfo
  /\ transaction' = "none"
  /\ result' = NoResult
  /\ startStore' = store
  /\ queries' = 0
  /\ txs' = <<>>
  /\ UNCHANGED <<store, strategy>>

Start ==
  /\ pc = "idle"
  /\ Enter(records)
  /\ UNCHANGED <<rerun, apart>>

\* the same rows are imported again with the same strategy
Rerun ==
  /\ pc = "done"
  /\ ~rerun
  /\ Enter(records)
  /\ rerun' = TRUE
  /\ UNCHANGED apart

\* a window begins with one construction of the index per row of the window
BeginBatch_PerRow ==
  /\ pc = "batch"
  /\ i < Len(records)
  /\ duplicateInfo' = detectDatabaseDuplicates(Batch(i), store)
  /\ j' = 0
  /\ pc' = "row"
  /\ UNCHANGED <<store, records, strategy, i, transaction, result, results,
                 startStore, rerun, raised, apart, txs>>
  /\ queries' = queries + 2 * Len(Batch(i))

\* a window begins: the index is built over the whole window
BeginBatch ==
  /\ pc = "batch"
  /\ i < Len(records)
  /\ duplicateInfo' = detectDatabaseDuplicates(Batch(i), store)
  /\ j' = 0
  /\ pc' = "row"
  /\ UNCHANGED <<store, records, strategy, i, transaction, result, results,
                 startStore, rerun, raised, apart, txs>>
  /\ queries' = queries + 2

\* the locals of processBulkImport are gone once it returns or throws
Leave ==
  /\ i' = 0
  /\ j' = 0
  /\ duplicateInfo' = NoInfo
  /\ result' = NoResult

\* processBulkImport throws: no summary reaches the caller
Raise(error) ==
  /\ pc' = "raised"
  /\ raised' = error
  /\ results' = NoResults
  /\ Leave

\* no window is left: the summary is returned
Return ==
  /\ pc = "batch"
  /\ i >= Len(records)
  /\ pc' = "done"
  /\ Leave
  /\ UNCHANGED <<store, records, strategy, transaction, results, startStore,
                 rerun, raised, apart, tally>>

Processed(fault) ==
  LET r == processRecord(Batch(i)[j + 1], duplicateInfo, strategy, store,
                         store, fault)
  IN /\ r.hit = (fault # 0)
     /\ result' = [status |-> r.status, email |-> r.email,
                   student_code |-> r.student_code, st |-> r.st,
                   aborted |-> r.aborted, message |-> r.message]
     /\ duplicateInfo' = r.info
     /\ transaction' = "open"
     /\ pc' = "commit"
     /\ UNCHANGED <<store, records, strategy, i, j, results, startStore,
                    rerun, raised, apart, queries>>
     /\ txs' = Append(txs, <<>>)

\* transaction.commit() and transaction.rollback(): the call finishes an
\* open transaction; on a finished one it throws and changes nothing
Finish_Unguarded(t, how) == Append(t, how)

Finish(t, how) == IF t = <<>> THEN <<how>> ELSE t

\* sequelize.transaction() and processRecord for the current row, every
\* statement doing what the tables make it do
ProcessRecord ==
  /\ pc = "row"
  /\ Processed(0)

\* the counters with a row created under a suffix not counted as created
Count_PlainOnly(res, status) ==
  CASE status = "created" -> [res EXCEPT !.created = @ + 1]
    [] status = "updated" -> [res EXCEPT !.updated = @ + 1]
    [] status = "skipped" -> [res EXCEPT !.skipped = @ + 1]
    [] status = "error" -> [res EXCEPT !.failed = @ + 1]
    [] OTHER -> res

\* the counters with the error branch left out
Count_DropFailed(res, status) ==
  CASE status \in {"created", "created_with_suffix"} ->
         [res EXCEPT !.created = @ + 1]
    [] status = "updated" -> [res EXCEPT !.updated = @ + 1]
    [] status = "skipped" -> [res EXCEPT !.skipped = @ + 1]
    [] OTHER -> res

Count(res, status) ==
  CASE status \in {"created", "created_with_suffix"} ->
         [res EXCEPT !.created = @ + 1]
    [] status = "updated" -> [res EXCEPT !.updated = @ + 1]
    [] status = "skipped" -> [res EXCEPT !.skipped = @ + 1]
    [] status = "error" -> [res EXCEPT !.failed = @ + 1]
    [] OTHER -> res

Detail(record, res) ==
  [rowNumber |-> record.rowNumber, status |-> res.status,
   email |-> res.email, student_code |-> res.student_code,
   message |-> res.message]

\* COMMIT keeping the writes made before a failed statement
Committed_Always(st, res) == res.st

\* COMMIT: a transaction with a failed statement ends rolled back
Committed(st, res) == IF res.aborted THEN st ELSE res.st

\* the loop steps of the two for statements after row j of the window
Advance ==
  IF j + 1 < Len(Batch(i))
  THEN /\ j' = j + 1
       /\ i' = i
       /\ pc' = "row"
  ELSE /\ j' = j + 1
       /\ i' = i + BATCH_SIZE
       /\ pc' = "batch"

\* the row is finished without the refresh of the index
FinishRow_NoRefresh ==
  /\ pc = "commit"
  /\ store' = Committed(store, result)
  /\ transaction' = "commit"
  /\ results' = [Count(results, result.status) EXCEPT
                   !.details = Append(@, Detail(Batch(i)[j + 1], result))]
  /\ result' = NoResult
  /\ Advance
  /\ UNCHANGED <<records, strategy, startStore, rerun, raised, apart,
                 duplicateInfo, queries>>
  /\ txs' = [txs EXCEPT ![Len(txs)] = Finish(@, "commit")]

\* transaction.commit(), the counters, the refresh of the index after a
\* creation, and the push onto details
\* the row is finished, a row with status error ending the whole run
FinishRow_StopsOnError ==
  /\ pc = "commit"
  /\ store' = Committed(store, result)
  /\ transaction' = "commit"
  /\ txs' = [txs EXCEPT ![Len(txs)] = Finish(@, "commit")]
  /\ IF result.status = "error"
     THEN /\ Raise("row")
          /\ UNCHANGED queries
     ELSE /\ results' = [Count(results, result.status) EXCEPT
                           !.details = Append(@, Detail(Batch(i)[j + 1],
                                                        result))]
          /\ duplicateInfo' =
               IF /\ result.status \in {"created", "created_with_suffix"}
                  /\ Len(Remaining(i, j)) > 0
               THEN detectDatabaseDuplicates(Remaining(i, j), store')
               ELSE duplicateInfo
          /\ queries' =
               IF /\ result.status \in {"created", "created_with_suffix"}
                  /\ Len(Remaining(i, j)) > 0
               THEN queries + 2
               ELSE queries
          /\ result' = NoResult
          /\ Advance
          /\ UNCHANGED raised
  /\ UNCHANGED <<records, strategy, startStore, rerun, apart>>

FinishRow ==
  /\ pc = "commit"
  /\ store' = Committed(store, result)
  /\ transaction' = "commit"
  /\ results' = [Count(results, result.status) EXCEPT
                   !.details = Append(@, Detail(Batch(i)[j + 1], result))]
  /\ duplicateInfo' =
       IF /\ result.status \in {"created", "created_with_suffix"}
          /\ Len(Remaining(i, j)) > 0
       THEN detectDatabaseDuplicates(Remaining(i, j), store')
       ELSE duplicateInfo
  /\ result' = NoResult
  /\ Advance
  /\ UNCHANGED <<records, strategy, startStore, rerun, raised, apart>>
  /\ txs' = [txs EXCEPT ![Len(txs)] = Finish(@, "commit")]
  /\ queries' =
       IF /\ result.status \in {"created", "created_with_suffix"}
          /\ Len(Remaining(i, j)) > 0
       THEN queries + 2
       ELSE queries

\* one call of processBulkImport
Run ==
  \/ Start
  \/ BeginBatch
  \/ Return
  \/ ProcessRecord
  \/ FinishRow

Next ==
  \/ Run
  \/ Rerun

Spec == Init /\ [][Next]_vars

\* ---------------------------------------------------------------- faults
\* A persistence call may throw for a reason the tables do not decide (a
\* lost connection, a timeout, a deadlock).  What the code does then:

\* the index query at the start of a window throws: it is outside every
\* try, so processBulkImport rejects
DetectFails ==
  /\ pc = "batch"
  /\ i < Len(records)
  /\ Raise("query")
  /\ UNCHANGED <<store, records, strategy, transaction, startStore, rerun,
                 apart, txs>>
  /\ queries' \in {queries + 1, queries + 2}

\* sequelize.transaction() throws: it is outside the try as well
TransactionFails ==
  /\ pc = "row"
  /\ Raise("transaction")
  /\ UNCHANGED <<store, records, strategy, transaction, startStore, rerun,
                 apart, tally>>

\* a persistence call inside processRecord throws: processRecord catches
\* it and returns status error
ProcessRecordFault ==
  /\ pc = "row"
  /\ \E fault \in 1..3 : Processed(fault)

\* transaction.commit() throws.  The transaction is then finished (state
\* commit) with its outcome undetermined, and the catch block's
\* transaction.rollback() throws on the finished transaction, out of
\* processBulkImport.
CommitFails ==
  /\ pc = "commit"
  /\ store' \in {store, Committed(store, result)}
  /\ transaction' = "commit"
  /\ Raise("commit")
  /\ UNCHANGED <<records, strategy, startStore, rerun, apart, queries>>
  /\ txs' = [txs EXCEPT ![Len(txs)] =
              Finish(Finish(@, "commit"), "rollback")]

\* the commit succeeds and the row is counted as created, then the refresh
\* query throws: the catch block's rollback throws on the committed
\* transaction, and the summary with the counted row is lost
RefreshFails ==
  /\ pc = "commit"
  /\ result.status \in {"created", "created_with_suffix"}
  /\ Len(Remaining(i, j)) > 0
  /\ store' = Committed(store, result)
  /\ transaction' = "commit"
  /\ Raise("refresh")
  /\ UNCHANGED <<records, strategy, startStore, rerun, apart>>
  /\ txs' = [txs EXCEPT ![Len(txs)] =
              Finish(Finish(@, "commit"), "rollback")]
  /\ queries' \in {queries + 1, queries + 2}

NextFault ==
  \/ Run
  \/ DetectFails
  \/ TransactionFails
  \/ ProcessRecordFault
  \/ CommitFails
  \/ RefreshFails

\* Whether a row carries a phone only selects the value update writes; the
\* runs with faults take the rows that carry one.
InitFault ==
  /\ Init
  /\ \A k \in 1..Len(records) : records[k].phone # NoPhone

SpecFault == InitFault /\ [][NextFault]_vars

\* ------------------------------------------------------------ csvService
REQUIRED_COLUMNS == <<"name", "email", "student_code">>
OPTIONAL_COLUMNS == <<"phone", "password">>

\* a value Joi's string().email() rejects
InvalidEmail == [local |-> "not-an-email", sfx |-> <<>>]

\* The csvData of a request: text = FALSE when the body carries no
\* non-empty string; headers = the header line as csv-parser maps it
\* (trimmed, lower-cased); rows = the data rows, row k named RowName(k).
HeaderLines ==
  { {"name", "email", "student_code", "phone"},
    {"name", "email", "student_code"},
    {"name", "email", "phone"},
    {"phone", "note"} }

CsvEmails ==
  RowEmails \cup {[local |-> "k", sfx |-> <<>>]} \cup {InvalidEmail}

CsvRowAt(k) ==
  {[email |-> e, name |-> RowName(k), student_code |-> c, phone |-> "999"] :
     e \in CsvEmails, c \in RowCodes}

RECURSIVE CsvRowLists(_)
CsvRowLists(n) ==
  IF n = 0 THEN {<<>>}
  ELSE LET shorter == CsvRowLists(n - 1)
       IN shorter \cup
          {Append(s, r) : s \in {t \in shorter : Len(t) = n - 1},
                          r \in CsvRowAt(n)}

CsvFiles ==
  {NoCsv} \cup
  {[text |-> TRUE, headers |-> h, rows |-> r] :
     h \in HeaderLines, r \in CsvRowLists(MaxRows)}

\* parseCSV without the check of the header line
parseCSV_AnyHeader(csv) ==
  IF Len(csv.rows) = 0
  THEN [ok |-> FALSE,
        error |-> "CSV file is empty or contains no valid data",
        columns |-> <<>>, records |-> <<>>]
  ELSE [ok |-> TRUE, error |-> "", columns |-> <<>>,
        records |->
          [k \in 1..Len(csv.rows) |->
             [email |-> csv.rows[k].email,
              name |-> csv.rows[k].name,
              student_code |-> csv.rows[k].student_code,
              phone |-> IF "phone" \in csv.headers
                        THEN csv.rows[k].phone ELSE NoPhone,
              rowNumber |-> k]]]

\* parseCSV: rejects on a missing required column (the first settlement of
\* the promise wins) or when the stream ends without a data row; a row
\* keeps the known columns its header names and gets its _rowNumber
parseCSV(csv) ==
  LET missingColumns ==
        SelectSeq(REQUIRED_COLUMNS, LAMBDA col : col \notin csv.headers)
  IN IF missingColumns # <<>>
     THEN [ok |-> FALSE, error |-> "Missing required columns",
           columns |-> missingColumns, records |-> <<>>]
     ELSE IF Len(csv.rows) = 0
     THEN [ok |-> FALSE,
           error |-> "CSV file is empty or contains no valid data",
           columns |-> <<>>, records |-> <<>>]
     ELSE [ok |-> TRUE, error |-> "", columns |-> <<>>,
           records |->
             [k \in 1..Len(csv.rows) |->
                [email |-> csv.rows[k].email,
                 name |-> csv.rows[k].name,
                 student_code |-> csv.rows[k].student_code,
                 phone |-> IF "phone" \in csv.headers
                           THEN csv.rows[k].phone ELSE NoPhone,
                 rowNumber |-> k]]]

\* validateRecord: csvStudentSchema on one row; of the schema's rules only
\* the one on email can fail on the rows of CsvRowAt
validateRecord(record) == record.email # InvalidEmail

validateRecords(recs) ==
  LET validRecords == SelectSeq(recs, validateRecord)
      invalidRecords == SelectSeq(recs, LAMBDA r : ~validateRecord(r))
  IN [validRecords |-> validRecords,
      invalidRecords |-> [k \in 1..Len(invalidRecords) |->
                            invalidRecords[k].rowNumber],
      totalRecords |-> Len(recs),
      validCount |-> Len(validRecords),
      invalidCount |-> Len(invalidRecords)]

parseAndValidateCSV(csv) ==
  LET parsed == parseCSV(csv)
      validationResults == validateRecords(parsed.records)
  IN IF parsed.ok
     THEN [success |-> TRUE, error |-> "", columns |-> <<>>] @@
          validationResults
     ELSE [success |-> FALSE, error |-> parsed.error,
           columns |-> parsed.columns, validRecords |-> <<>>,
           invalidRecords |-> <<>>, totalRecords |-> 0, validCount |-> 0,
           invalidCount |-> 0]

\* the forEach with both maps set on every row, so that a map holds the
\* last row of a key
RECURSIVE InternalDuplicatesFrom_LastSeen(_, _, _, _)
InternalDuplicatesFrom_LastSeen(recs, k, emailMap, studentCodeMap) ==
  IF k > Len(recs) THEN <<>>
  ELSE LET record == recs[k]
           email == ToLower(record.email)
           studentCode == record.student_code
           rowNumber == record.rowNumber
           byEmail ==
             IF email \in DOMAIN emailMap
             THEN <<[rowNumber |-> rowNumber, field |-> "email",
                     value |-> record.email,
                     duplicateOf |-> emailMap[email]]>>
             ELSE <<>>
           byCode ==
             IF studentCode \in DOMAIN studentCodeMap
             THEN <<[rowNumber |-> rowNumber, field |-> "student_code",
                     value |-> studentCode,
                     duplicateOf |-> studentCodeMap[studentCode]]>>
             ELSE <<>>
       IN byEmail \o byCode \o
          InternalDuplicatesFrom_LastSeen(
            recs, k + 1,
            (email :> rowNumber) @@ emailMap,
            (studentCode :> rowNumber) @@ studentCodeMap)

\* The forEach of detectInternalDuplicates from row k on.  emailMap and
\* studentCodeMap hold the row number under which a lower-cased email and a
\* student code were first set; a row whose key a map has is pushed as a
\* duplicate of the row the map holds, and the map is left as it is.
RECURSIVE InternalDuplicatesFrom(_, _, _, _)
InternalDuplicatesFrom(recs, k, emailMap, studentCodeMap) ==
  IF k > Len(recs) THEN <<>>
  ELSE LET record == recs[k]
           email == ToLower(record.email)
           studentCode == record.student_code
           rowNumber == record.rowNumber
           byEmail ==
             IF email \in DOMAIN emailMap
             THEN <<[rowNumber |-> rowNumber, field |-> "email",
                     value |-> record.email,
                     duplicateOf |-> emailMap[email]]>>
             ELSE <<>>
           byCode ==
             IF studentCode \in DOMAIN studentCodeMap
             THEN <<[rowNumber |-> rowNumber, field |-> "student_code",
                     value |-> studentCode,
                     duplicateOf |-> studentCodeMap[studentCode]]>>
             ELSE <<>>
       IN byEmail \o byCode \o
          InternalDuplicatesFrom(
            recs, k + 1,
            IF email \in DOMAIN emailMap
            THEN emailMap ELSE (email :> rowNumber) @@ emailMap,
            IF studentCode \in DOMAIN studentCodeMap
            THEN studentCodeMap
            ELSE (studentCode :> rowNumber) @@ studentCodeMap)

\* new Map()
EmptyMap == [key \in {} |-> 0]

\* the duplicates are listed but never reported as present
detectInternalDuplicates_Silent(recs) ==
  LET duplicates == InternalDuplicatesFrom(recs, 1, EmptyMap, EmptyMap)
  IN [hasDuplicates |-> FALSE,
      duplicates |-> duplicates,
      duplicateCount |-> Len(duplicates)]

detectInternalDuplicates(recs) ==
  LET duplicates == InternalDuplicatesFrom(recs, 1, EmptyMap, EmptyMap)
  IN [hasDuplicates |-> Len(duplicates) > 0,
      duplicates |-> duplicates,
      duplicateCount |-> Len(duplicates)]

\* The rows detectInternalDuplicates is run on by itself: the valid rows of
\* the files whose rows carry the emails of CsvEmails and codes of which two
\* differ in case only.
DupCodes == RowCodes \cup {"s1"}

DupRowAt(k) ==
  {[email |-> e, name |-> RowName(k), student_code |-> c, phone |-> "999"] :
     e \in CsvEmails, c \in DupCodes}

RECURSIVE DupRowLists(_)
DupRowLists(n) ==
  IF n = 0 THEN {<<>>}
  ELSE LET shorter == DupRowLists(n - 1)
       IN shorter \cup
          {Append(s, r) : s \in {t \in shorter : Len(t) = n - 1},
                          r \in DupRowAt(n)}

DupInputs ==
  {parseAndValidateCSV([text |-> TRUE,
                        headers |-> {"name", "email", "student_code", "phone"},
                        rows |-> r]).validRecords :
     r \in DupRowLists(MaxRows)}

\* ----------------------------------------------------- studentController
\* an ApiError thrown by a handler, as the error middleware answers it
ApiError(code, error, columns) ==
  [kind |-> "error", code |-> code, error |-> error, columns |-> columns]

\* the handler throws before it calls the engine
Reject(code, error, columns) ==
  /\ response' = ApiError(code, error, columns)
  /\ pc' = "rejected"
  /\ UNCHANGED <<store, records, strategy, i, j, duplicateInfo, transaction,
                 result, results, startStore, rerun, raised, csvData, suffix,
                 tally, pair>>

\* bulkImport, from the request to the call of processBulkImport with the
\* valid rows
BulkImport ==
  /\ pc = "idle"
  /\ LET validationResults == parseAndValidateCSV(csvData)
         internalDuplicates ==
           detectInternalDuplicates(validationResults.validRecords)
     IN IF ~csvData.text \/ strategy \notin {"skip", "update", "suffix"}
        THEN Reject("VALIDATION_ERROR", "", <<>>)
        ELSE IF ~validationResults.success
        THEN Reject("CSV_PARSE_ERROR", validationResults.error,
                    validationResults.columns)
        ELSE IF validationResults.validCount = 0
        THEN Reject("NO_VALID_RECORDS", "No valid records to import", <<>>)
        ELSE IF internalDuplicates.hasDuplicates
        THEN Reject("INTERNAL_DUPLICATES",
                    "CSV contains internal duplicates", <<>>)
        ELSE /\ Enter(validationResults.validRecords)
             /\ UNCHANGED <<rerun, apart>>

\* bulkImport, after processBulkImport has returned
Respond ==
  /\ pc = "done"
  /\ response' = [kind |-> "import",
                  summary |-> [total |-> results.total,
                               created |-> results.created,
                               updated |-> results.updated,
                               skipped |-> results.skipped,
                               failed |-> results.failed,
                               strategy |-> strategy],
                  details |-> results.details]
  /\ pc' = "responded"
  /\ UNCHANGED <<store, records, strategy, i, j, duplicateInfo, transaction,
                 result, results, startStore, rerun, raised, csvData, suffix,
                 tally, pair>>

\* what validateCSV answers for a CSV it could parse
Preview(validationResults, st) ==
  LET validRecords == validationResults.validRecords
      internalDuplicates == detectInternalDuplicates(validRecords)
      dbDuplicates == detectDatabaseDuplicates(validRecords, st)
      recordsWithDbDuplicates ==
        [k \in 1..Len(validRecords) |->
           LET emailExists == ToLower(validRecords[k].email)
                                \in DOMAIN dbDuplicates.emailMap
               codeExists == validRecords[k].student_code
                               \in DOMAIN dbDuplicates.studentCodeMap
           IN [rowNumber |-> validRecords[k].rowNumber,
               duplicates |-> [email |-> emailExists,
                               student_code |-> codeExists,
                               hasAnyDuplicate |-> emailExists \/ codeExists]]]
  IN [kind |-> "preview",
      summary |->
        [totalRecords |-> validationResults.totalRecords,
         validRecords |-> validationResults.validCount,
         invalidRecords |-> validationResults.invalidCount,
         internalDuplicates |-> internalDuplicates.duplicateCount,
         databaseDuplicates |->
           Cardinality({k \in 1..Len(validRecords) :
                          recordsWithDbDuplicates[k].duplicates.hasAnyDuplicate})],
      validRecords |-> recordsWithDbDuplicates,
      invalidRecords |-> validationResults.invalidRecords,
      internalDuplicates |-> internalDuplicates.duplicates]

\* validateCSV creating the accounts of the rows it finds no duplicate for
ValidateCSV_Creates ==
  /\ pc \in {"idle", "rejected", "responded"}
  /\ response.kind # "preview"
  /\ LET validationResults == parseAndValidateCSV(csvData)
         preview == Preview(validationResults, store)
     IN /\ response' =
             IF ~csvData.text THEN ApiError("VALIDATION_ERROR", "", <<>>)
             ELSE IF ~validationResults.success
             THEN ApiError("CSV_PARSE_ERROR", validationResults.error,
                           validationResults.columns)
             ELSE preview
        /\ store' =
             IF csvData.text /\ validationResults.success
             THEN store \cup
                  {Account(r.email, r.name, r.student_code, r.phone) :
                     r \in {validationResults.validRecords[k] :
                              k \in {n \in 1..validationResults.validCount :
                                ~preview.validRecords[n].duplicates.hasAnyDuplicate}}}
             ELSE store
  /\ UNCHANGED <<records, strategy, pc, i, j, duplicateInfo,
                 transaction, result, results, startStore, rerun, raised,
                 csvData, suffix, tally, pair>>

\* validateCSV, the whole handler; a client asks for a preview before an
\* import or after one has been answered
ValidateCSV ==
  /\ pc \in {"idle", "rejected", "responded"}
  /\ response.kind # "preview"
  /\ LET validationResults == parseAndValidateCSV(csvData)
     IN response' =
          IF ~csvData.text THEN ApiError("VALIDATION_ERROR", "", <<>>)
          ELSE IF ~validationResults.success
          THEN ApiError("CSV_PARSE_ERROR", validationResults.error,
                        validationResults.columns)
          ELSE Preview(validationResults, store)
  /\ UNCHANGED <<store, records, strategy, pc, i, j, duplicateInfo,
                 transaction, result, results, startStore, rerun, raised,
                 csvData, suffix, tally, pair>>

InitApi ==
  /\ store \in InitialStores
  /\ csvData \in CsvFiles
  /\ strategy \in Strategies
  /\ records = <<>>
  /\ pc = "idle"
  /\ i = 0
  /\ j = 0
  /\ duplicateInfo = NoInfo
  /\ transaction = "none"
  /\ result = NoResult
  /\ results = NoResults
  /\ startStore = store
  /\ rerun = FALSE
  /\ raised = "none"
  /\ response = NoResponse
  /\ suffix = 0
  /\ queries = 0
  /\ txs = <<>>
  /\ peer = NoPeer
  /\ seen = {}

NextApi ==
  \/ ValidateCSV
  \/ BulkImport
  \/ BeginBatch
  \/ Return
  \/ ProcessRecord
  \/ FinishRow
  \/ Respond

SpecApi == InitApi /\ [][NextApi]_vars

\* ------------------------------------------- findAvailableEmail by itself
\* The stores findAvailableEmail is run against: the accounts whose emails
\* are a base email with the suffixes of a set, for every set of suffixes
\* up to MaxTaken, for all the suffixes up to the limit, and for all of
\* them but one.
TakenSets ==
  (SUBSET (1..MaxTaken)) \cup {1..SUFFIX_LIMIT} \cup
  {(1..SUFFIX_LIMIT) \ {n} : n \in {1, 2, SUFFIX_LIMIT}}

AllocStores ==
  {{Account(generateEmailWithSuffix(e, n), <<"name", 0>>, NoCode, NoPhone) :
      n \in taken} : e \in RowEmails, taken \in TakenSets}

InitAlloc ==
  /\ store \in AllocStores
  /\ records \in {<<r>> : r \in {q \in RowAt(1) : /\ q.student_code = "S1"
                                                 /\ q.phone = NoPhone}}
  /\ strategy = "suffix"
  /\ pc = "alloc"
  /\ i = 0
  /\ j = 0
  /\ duplicateInfo = NoInfo
  /\ transaction = "none"
  /\ result = NoResult
  /\ results = NoResults
  /\ startStore = store
  /\ rerun = FALSE
  /\ raised = "none"
  /\ csvData = NoCsv
  /\ response = NoResponse
  /\ suffix = 0
  /\ queries = 0
  /\ txs = <<>>
  /\ peer = NoPeer
  /\ seen = {}

\* the probing begun at suffix 2
FindAvailableEmail_FromTwo ==
  /\ pc = "alloc"
  /\ suffix' = 2
  /\ pc' = "probe"
  /\ UNCHANGED <<store, records, strategy, i, j, duplicateInfo, transaction,
                 result, results, startStore, rerun, raised, http, tally,
                 pair>>

\* findAvailableEmail is called for the row's email: let suffix = 1
FindAvailableEmail ==
  /\ pc = "alloc"
  /\ suffix' = 1
  /\ pc' = "probe"
  /\ UNCHANGED <<store, records, strategy, i, j, duplicateInfo, transaction,
                 result, results, startStore, rerun, raised, http, tally,
                 pair>>

\* one turn of the loop that probes the same suffix again after a taken one
ProbeStep_NoIncrement ==
  /\ pc = "probe"
  /\ LET email == generateEmailWithSuffix(records[1].email, suffix)
         existing == \E u \in store : u.email = email
     IN IF ~existing
        THEN /\ result' = [status |-> "found", email |-> email]
             /\ pc' = "probed"
             /\ suffix' = suffix
        ELSE /\ suffix' = suffix
             /\ result' = result
             /\ pc' = "probe"
  /\ UNCHANGED <<store, records, strategy, i, j, duplicateInfo, transaction,
                 results, startStore, rerun, raised, http, tally, pair>>

\* one turn of its loop: User.findOne for the email under the current
\* suffix; return it when there is none, else go on to the next suffix,
\* throwing once that is beyond the limit
ProbeStep ==
  /\ pc = "probe"
  /\ LET email == generateEmailWithSuffix(records[1].email, suffix)
         existing == \E u \in store : u.email = email
     IN IF ~existing
        THEN /\ result' = [status |-> "found", email |-> email]
             /\ pc' = "probed"
             /\ suffix' = suffix
        ELSE /\ suffix' = suffix + 1
             /\ IF suffix' > SUFFIX_LIMIT
                THEN /\ result' = [status |-> "thrown", email |-> NoEmail]
                     /\ pc' = "probed"
                ELSE /\ result' = result
                     /\ pc' = "probe"
  /\ UNCHANGED <<store, records, strategy, i, j, duplicateInfo, transaction,
                 results, startStore, rerun, raised, http, tally, pair>>

NextAlloc ==
  \/ FindAvailableEmail
  \/ ProbeStep

SpecAlloc == InitAlloc /\ [][NextAlloc]_vars

\* ------------------------------------------------------------ to the end
\* processBulkImport and findAvailableEmail, each run from its start, with
\* every persistence call returning or throwing.  Both are async functions:
\* each of their steps ends at an await, and the event loop resumes the
\* function once the awaited promise has settled, so a step that can be
\* taken is taken.
InitLive ==
  \/ InitFault
  \/ InitAlloc

NextLive ==
  \/ NextFault
  \/ NextAlloc

SpecLive == InitLive /\ [][NextLive]_vars /\ WF_vars(NextLive)

\* ------------------------------------------- detectInternalDuplicates alone
InitDup ==
  /\ store = {}
  /\ records \in DupInputs
  /\ strategy = "skip"
  /\ pc = "rows"
  /\ i = 0
  /\ j = 0
  /\ duplicateInfo = NoInfo
  /\ transaction = "none"
  /\ result = NoResult
  /\ results = NoResults
  /\ startStore = store
  /\ rerun = FALSE
  /\ raised = "none"
  /\ csvData = NoCsv
  /\ response = NoResponse
  /\ suffix = 0
  /\ queries = 0
  /\ txs = <<>>
  /\ peer = NoPeer
  /\ seen = {}

\* detectInternalDuplicates(records) returns
DetectInternalDuplicates ==
  /\ pc = "rows"
  /\ result' = detectInternalDuplicates(records)
  /\ pc' = "scanned"
  /\ UNCHANGED <<store, records, strategy, i, j, duplicateInfo, transaction,
                 results, startStore, rerun, raised, http, suffix, tally,
                 pair>>

NextDup == DetectInternalDuplicates

SpecDup == InitDup /\ [][NextDup]_vars

\* --------------------------------------------------------- two calls
\* Two calls of processBulkImport on one event loop and one database.  One
\* call runs at a time; at an await the other may go on.  The variables of
\* the engine are the locals of the call that runs, peer holds those of the
\* call that waits.
\*
\* The statements of a row run in the row's own transaction (READ COMMITTED):
\* its writes are unseen by the other call until COMMIT, an INSERT that
\* meets an uncommitted row with its unique key waits for that transaction
\* to end, and no committed account is ever deleted, so a row's writes
\* succeed or fail as if made at its COMMIT; every transaction writes the
\* account before the profile, so none waits for one that waits for it.
\* What a call reads outside a transaction it may use after the other has
\* committed: the index, read when the window began or was refreshed, and
\* what findAvailableEmail found free.

PairStores ==
  { {},
    {Account([local |-> "j", sfx |-> <<>>], <<"name", 0>>, "S1", "111")} }

\* the rows of a call at position k; the rows of the second call are named
\* apart from those of the first
PairRowAt(k, call) ==
  {[email |-> e, name |-> RowName(k + call * MaxPairRows),
    student_code |-> c, phone |-> NoPhone, rowNumber |-> k] :
     e \in RowEmails, c \in RowCodes}

RECURSIVE PairRowLists(_, _)
PairRowLists(n, call) ==
  IF n = 1 THEN {<<r>> : r \in PairRowAt(1, call)}
  ELSE LET shorter == PairRowLists(n - 1, call)
       IN shorter \cup
          {Append(s, r) : s \in {t \in shorter : Len(t) = n - 1},
                          r \in PairRowAt(n, call)}

\* the locals of the call that runs
CallLocals ==
  [records |-> records, strategy |-> strategy, pc |-> pc, i |-> i, j |-> j,
   duplicateInfo |-> duplicateInfo, transaction |-> transaction,
   result |-> result, results |-> results, startStore |-> startStore,
   rerun |-> rerun, raised |-> raised, queries |-> queries, txs |-> txs,
   seen |-> seen]

InitPair ==
  /\ store \in PairStores
  /\ records \in PairRowLists(MaxPairRows, 0)
  /\ strategy \in DUPLICATE_STRATEGIES
  /\ pc = "idle"
  /\ i = 0
  /\ j = 0
  /\ duplicateInfo = NoInfo
  /\ transaction = "none"
  /\ result = NoResult
  /\ results = NoResults
  /\ startStore = store
  /\ rerun = FALSE
  /\ raised = "none"
  /\ csvData = NoCsv
  /\ response = NoResponse
  /\ suffix = 0
  /\ queries = 0
  /\ txs = <<>>
  /\ seen = {}
  /\ peer \in {[CallLocals EXCEPT !.records = r] :
                 r \in PairRowLists(MaxPairRows, 1)}

\* the call that runs is suspended at an await and the other resumed.  No
\* call is resumed in place of one whose row transaction is between its
\* first statement and its commit, see above.
Switch ==
  /\ peer.pc \notin {"none", "done", "raised"}
  /\ pc # "commit"
  /\ records' = peer.records
  /\ strategy' = peer.strategy
  /\ pc' = peer.pc
  /\ i' = peer.i
  /\ j' = peer.j
  /\ duplicateInfo' = peer.duplicateInfo
  /\ transaction' = peer.transaction
  /\ result' = peer.result
  /\ results' = peer.results
  /\ startStore' = peer.startStore
  /\ rerun' = peer.rerun
  /\ raised' = peer.raised
  /\ queries' = peer.queries
  /\ txs' = peer.txs
  /\ seen' = peer.seen
  /\ peer' = CallLocals
  /\ UNCHANGED <<store, http, suffix>>

\* sequelize.transaction() for the current row, and what the queries of
\* findAvailableEmail, which run outside the transaction, are answered from
BeginRow ==
  /\ pc = "row"
  /\ pc' = "probed row"
  /\ seen' = store
  /\ UNCHANGED <<store, records, strategy, i, j, duplicateInfo, transaction,
                 result, results, startStore, rerun, raised, http, suffix,
                 tally, peer>>

\* processRecord for the current row, its statements run against the store
\* as it is now and the email of a suffixed account being the one found free
\* in the store as seen
ProcessSeen ==
  /\ pc = "probed row"
  /\ LET r == processRecord(Batch(i)[j + 1], duplicateInfo, strategy, store,
                            seen, 0)
     IN /\ result' = [status |-> r.status, email |-> r.email,
                      student_code |-> r.student_code, st |-> r.st,
                      aborted |-> r.aborted, message |-> r.message]
        /\ duplicateInfo' = r.info
  /\ transaction' = "open"
  /\ pc' = "commit"
  /\ txs' = Append(txs, <<>>)
  /\ UNCHANGED <<store, records, strategy, i, j, results, startStore, rerun,
                 raised, apart, queries>>

NextPair ==
  \/ Start
  \/ BeginBatch
  \/ BeginRow
  \/ ProcessSeen
  \/ FinishRow
  \/ Return
  \/ Switch

SpecPair == InitPair /\ [][NextPair]_vars

\* ------------------------------------------------------------ properties
CurrentRow == Batch(i)[j + 1]

Created(d) == d.status \in {"created", "created_with_suffix"}

\* the accounts of a table that a row's email or code identifies; email
\* identity is case-insensitive
ByEmail(st, email) == {u \in st : ToLower(u.email) = ToLower(email)}
ByCode(st, code) == {u \in st : u.student_code = code}

Window(k) == (k - 1) \div BATCH_SIZE

SuffixOf(email, base) ==
  IF /\ Len(email.sfx) = Len(base.sfx) + 1
     /\ email = generateEmailWithSuffix(base, email.sfx[Len(email.sfx)])
  THEN email.sfx[Len(email.sfx)]
  ELSE 0

NumberOf(statuses) ==
  Cardinality({k \in 1..Len(results.details) :
                 results.details[k].status \in statuses})

\* C10: a returned summary has one detail per input row, in row order, and
\* created + updated + skipped + failed = total = the number of rows, each
\* counter being the number of details of its status.
C10_SummaryAccounting ==
  pc = "done"
    => /\ results.total = Len(records)
       /\ Len(results.details) = Len(records)
       /\ \A k \in 1..Len(records) : results.details[k].rowNumber = k
       /\ results.created + results.updated + results.skipped + results.failed
            = results.total
       /\ results.created = NumberOf({"created", "created_with_suffix"})
       /\ results.updated = NumberOf({"updated"})
       /\ results.skipped = NumberOf({"skipped"})
       /\ results.failed = NumberOf({"error"})

\* a summary is returned for several rows although a statement of the first
\* row threw on an empty store, where only an injected failure makes it throw
C10_Witness ==
  /\ pc = "done"
  /\ startStore = {}
  /\ Len(records) >= 2
  /\ results.details[1].status = "error"
  /\ results.created >= 1

\* the valid rows of the request's CSV and the required columns its header
\* line lacks
ValidRows == parseAndValidateCSV(csvData).validRecords

MissingColumns ==
  {REQUIRED_COLUMNS[k] : k \in 1..Len(REQUIRED_COLUMNS)} \ csvData.headers

RepeatsKey(recs) ==
  \E a, b \in 1..Len(recs) :
    /\ a # b
    /\ \/ ToLower(recs[a].email) = ToLower(recs[b].email)
       \/ recs[a].student_code = recs[b].student_code

\* the engine has not been entered and nothing has been written
Untouched ==
  /\ pc \in {"idle", "rejected"}
  /\ store = startStore
  /\ records = <<>>
  /\ transaction = "none"
  /\ results = NoResults

\* C11: when two valid rows of the CSV share a lower-cased email or a
\* student_code, bulkImport rejects the request with INTERNAL_DUPLICATES:
\* processBulkImport is never entered, no transaction is opened and the
\* store stays as it was.
C11_InternalDuplicateFailFast ==
  RepeatsKey(ValidRows)
    => /\ Untouched
       /\ (pc = "rejected" /\ strategy \in DUPLICATE_STRATEGIES
             /\ response.kind = "error")
            => response.code = "INTERNAL_DUPLICATES"

\* rejected for two rows whose emails differ only in case
C11_Witness ==
  /\ pc = "rejected"
  /\ response.kind = "error"
  /\ response.code = "INTERNAL_DUPLICATES"
  /\ store # {}
  /\ Len(ValidRows) = 2
  /\ ValidRows[1].email # ValidRows[2].email
  /\ ValidRows[1].student_code # ValidRows[2].student_code

\* C12: a CSV whose header line lacks a required column, or which has no
\* data row, is rejected as a whole: the engine is never entered and the
\* store stays as it was; when a column is missing the error is
\* CSV_PARSE_ERROR and names exactly the missing required columns.
C12_StructuralRejection ==
  (csvData.text /\ (MissingColumns # {} \/ Len(csvData.rows) = 0))
    => /\ Untouched
       /\ pc = "rejected" => response.kind = "error"
       /\ (response.kind = "error" /\ strategy \in DUPLICATE_STRATEGIES)
            => /\ response.code = "CSV_PARSE_ERROR"
               /\ {response.columns[k] : k \in 1..Len(response.columns)}
                    = MissingColumns
               /\ MissingColumns = {}
                    => response.error
                         = "CSV file is empty or contains no valid data"

\* an import with data rows is rejected for the missing student_code column
C12_Witness ==
  /\ pc = "rejected"
  /\ response.kind = "error"
  /\ response.code = "CSV_PARSE_ERROR"
  /\ response.columns = <<"student_code">>
  /\ Len(csvData.rows) = MaxRows
  /\ store # {}

\* C13: a step in which validateCSV answers (a preview or an error) leaves
\* the store, and everything else but the response, as it was.
C13_PreviewReadOnly ==
  [][(pc' = pc /\ response' # response /\ response'.kind # "import")
       => UNCHANGED <<store, records, results, transaction>>]_vars

\* a preview answered after an import that wrote to the store, flagging
\* rows the store now holds
C13_Witness ==
  /\ pc = "responded"
  /\ response.kind = "preview"
  /\ store # startStore
  /\ response.summary.databaseDuplicates > 0

\* the current row's email, or its student_code, is in the duplicate index
EmailInIndex == ToLower(CurrentRow.email) \in DOMAIN duplicateInfo.emailMap
CodeInIndex == CurrentRow.student_code \in DOMAIN duplicateInfo.studentCodeMap

RECURSIVE ImportFrom(_, _, _, _, _, _, _)
ImportFrom(recs, k, info, strat, st, size, res) ==
  IF k > Len(recs) THEN res
  ELSE LET last == Min(((k - 1) \div size) * size + size, Len(recs))
           atStart == IF (k - 1) % size = 0
                      THEN detectDatabaseDuplicates(SubSeq(recs, k, last), st)
                      ELSE info
           r == processRecord(recs[k], atStart, strat, st, st, 0)
           after == Committed(st, r)
           remainingRecords == SubSeq(recs, k + 1, last)
           refreshed == IF /\ Created(r)
                           /\ Len(remainingRecords) > 0
                        THEN detectDatabaseDuplicates(remainingRecords, after)
                        ELSE r.info
       IN ImportFrom(recs, k + 1, refreshed, strat, after, size,
                     [Count(res, r.status) EXCEPT
                        !.details = Append(@, Detail(recs[k], r))])

ImportWith(recs, strat, st, size) ==
  ImportFrom(recs, 1, NoInfo, strat, st, size,
             [NoResults EXCEPT !.total = Len(recs)])

Prescribed ==
  IF ~EmailInIndex /\ ~CodeInIndex THEN "created"
  ELSE CASE strategy = "skip" -> "skipped"
         [] strategy = "update" ->
              IF /\ EmailInIndex
                 /\ duplicateInfo.emailMap[ToLower(CurrentRow.email)].student
                      # NoCode
              THEN "updated" ELSE "skipped"
         [] strategy = "suffix" ->
              IF CodeInIndex THEN "skipped" ELSE "created_with_suffix"
         [] OTHER -> "error"

FreeSuffixes(email, st) ==
  LET taken == {u.email : u \in st}
  IN {n \in 1..SUFFIX_LIMIT : generateEmailWithSuffix(email, n) \notin taken}

\* C20: findAvailableEmail probes the base email under the suffixes 1, 2,
\* ... in increasing order, going on only past a suffix the store holds; it
\* returns the email with the least suffix in 1..1000 under which the store
\* holds no account, an email the store does not hold, and throws exactly
\* when the store holds the email under every suffix from 1 to 1000.
C20_AllocatorResult ==
  /\ pc = "probe"
       => /\ suffix \in 1..SUFFIX_LIMIT
          /\ suffix > 1
               => \E u \in store :
                    u.email
                      = generateEmailWithSuffix(records[1].email, suffix - 1)
  /\ pc = "probed"
       => LET free == FreeSuffixes(records[1].email, store)
          IN /\ IF free = {}
                THEN result.status = "thrown"
                ELSE /\ result.status = "found"
                     /\ \E n \in free :
                          /\ \A m \in free : n <= m
                          /\ suffix = n
                          /\ result.email
                               = generateEmailWithSuffix(records[1].email, n)
                     /\ \A u \in store : u.email # result.email
             /\ Cardinality(store) <= MaxTaken
                  => result.email = findAvailableEmail(records[1].email, store)

\* suffix 2 is returned from a store that holds the email under the
\* suffixes 1 and 3
C20_Witness ==
  /\ pc = "probed"
  /\ result.status = "found"
  /\ result.email = generateEmailWithSuffix(records[1].email, 2)
  /\ \E u \in store :
       u.email = generateEmailWithSuffix(records[1].email, 3)

\* the current row's findAvailableEmail has thrown: under suffix an error
\* whose transaction no statement has aborted is the allocator's
AllocFailed ==
  /\ pc = "commit"
  /\ strategy = "suffix"
  /\ result.status = "error"
  /\ ~result.aborted

\* C21: when findAvailableEmail fails for a row under strategy suffix, the
\* row's transaction holds no write, and, unless the commit itself throws,
\* the row is counted as failed with its detail, the store stays as it was,
\* no other counter moves, and the import goes on to the next row or window
\* (from where it returns its summary) instead of raising.
C21_ExhaustionLocal ==
  /\ [](AllocFailed => result.st = store)
  /\ [][AllocFailed /\ raised' # "commit"
          => /\ store' = store
             /\ pc' \in {"row", "batch"}
             /\ results'.failed = results.failed + 1
             /\ results'.created = results.created
             /\ results'.updated = results.updated
             /\ results'.skipped = results.skipped
             /\ results'.total = results.total
             /\ Len(results'.details) = Len(results.details) + 1
             /\ results'.details[Len(results'.details)].status = "error"
             /\ results'.details[Len(results'.details)].rowNumber
                  = Batch(i)[j + 1].rowNumber]_vars

\* the allocator fails for a row that follows a created row and is followed
\* by another row
C21_Witness ==
  /\ AllocFailed
  /\ results.created >= 1
  /\ i + j + 1 < Len(records)

\* the windows of the run: ceil(records.length / BATCH_SIZE)
Windows == (Len(records) + BATCH_SIZE - 1) \div BATCH_SIZE

\* the windows the run has begun
WindowsBegun ==
  CASE pc \in {"row", "commit"} -> i \div BATCH_SIZE + 1
    [] pc = "batch" -> i \div BATCH_SIZE
    [] pc = "done" -> Windows
    [] OTHER -> 0

\* the finished rows that were created with a row of their window left
\* after them: the rows whose finish rebuilt the index
Refreshes ==
  Cardinality({k \in 1..Len(results.details) :
                 /\ Created(results.details[k])
                 /\ k < Len(records)
                 /\ k % BATCH_SIZE # 0})

EmailBefore(b) ==
  {a \in 1..(b - 1) : ToLower(records[a].email) = ToLower(records[b].email)}

CodeBefore(b) ==
  {a \in 1..(b - 1) : records[a].student_code = records[b].student_code}

\* the entries reported for row b under a field
EntriesOf(b, field) ==
  {k \in 1..Len(result.duplicates) :
     /\ result.duplicates[k].rowNumber = records[b].rowNumber
     /\ result.duplicates[k].field = field}

\* C23: detectInternalDuplicates reports hasDuplicates exactly when two
\* rows carry the same lower-cased email or the same student_code, codes
\* compared as they are written; it lists one entry for every row that
\* repeats an email and one for every row that repeats a code (two for a
\* row that repeats both), and no other entry; the duplicateOf of an entry
\* is the row number of the first row that carried the value.
C23_InternalDuplicates ==
  pc = "scanned"
    => LET rows == 1..Len(records)
       IN /\ result.hasDuplicates
               <=> \E b \in rows : EmailBefore(b) # {} \/ CodeBefore(b) # {}
          /\ result.duplicateCount = Len(result.duplicates)
          /\ Len(result.duplicates)
               = Cardinality({b \in rows : EmailBefore(b) # {}})
                 + Cardinality({b \in rows : CodeBefore(b) # {}})
          /\ \A b \in rows :
               /\ Cardinality(EntriesOf(b, "email"))
                    = IF EmailBefore(b) # {} THEN 1 ELSE 0
               /\ Cardinality(EntriesOf(b, "student_code"))
                    = IF CodeBefore(b) # {} THEN 1 ELSE 0
               /\ \A k \in EntriesOf(b, "email") :
                    /\ result.duplicates[k].value = records[b].email
                    /\ \E a \in EmailBefore(b) :
                         /\ \A m \in EmailBefore(b) : a <= m
                         /\ result.duplicates[k].duplicateOf
                              = records[a].rowNumber
               /\ \A k \in EntriesOf(b, "student_code") :
                    /\ result.duplicates[k].value = records[b].student_code
                    /\ \E a \in CodeBefore(b) :
                         /\ \A m \in CodeBefore(b) : a <= m
                         /\ result.duplicates[k].duplicateOf
                              = records[a].rowNumber

\* the file's first row is invalid; its third row repeats the email (in
\* another case) and the code of its second and yields two entries, each a
\* duplicate of row 2
C23_Witness ==
  /\ pc = "scanned"
  /\ Len(records) = 2
  /\ records[1].rowNumber = 2
  /\ records[1].email # records[2].email
  /\ result.hasDuplicates
  /\ Len(result.duplicates) = 2
  /\ \A k \in 1..2 :
       /\ result.duplicates[k].rowNumber = 3
       /\ result.duplicates[k].duplicateOf = 2

\* the rows whose transaction the run has opened
RowsBegun ==
  CASE pc = "row" -> i + j
    [] pc = "commit" -> i + j + 1
    [] pc = "batch" -> Min(i, Len(records))
    [] pc = "done" -> Len(records)
    [] OTHER -> Len(txs)

\* C24: within one run of processBulkImport a transaction is opened per row
\* begun; a transaction is open only while its row is being processed, so at
\* most one is open at any time; every transaction is finished by exactly
\* one call, a commit or a rollback and never both, and all the earlier ones
\* are finished when the next row's transaction is opened.
C24_TransactionDiscipline ==
  /\ [](/\ Len(txs) = RowsBegun
        /\ Len(txs) <= Len(records)
        /\ \A k \in 1..Len(txs) :
             /\ Len(txs[k]) <= 1
             /\ txs[k] = <<>> => k = Len(txs) /\ pc = "commit"
             /\ txs[k] # <<>> => txs[k][1] \in {"commit", "rollback"}
        /\ pc = "commit" => txs[Len(txs)] = <<>>)
  /\ [][Len(txs') > Len(txs)
          => /\ Len(txs') = Len(txs) + 1
             /\ txs'[Len(txs')] = <<>>
             /\ \A k \in 1..Len(txs) : /\ Len(txs[k]) = 1
                                       /\ txs'[k] = txs[k]]_vars

\* the commit of a run's second transaction has thrown and the rollback
\* after it was refused: both transactions are finished once
C24_Witness ==
  /\ pc = "raised"
  /\ raised = "commit"
  /\ Len(txs) = 2
  /\ \A k \in 1..2 : txs[k] = <<"commit">>

\* the accounts the run has written: those under an email the store did not
\* hold when the run began
Written(st) == {u \in st : \A v \in startStore : v.email # u.email}

\* C25: a row commits all of its writes or none.  In every state between
\* rows each account the run has written has its profile, and the finish
\* of a row one of whose statements failed leaves the store as it was, even
\* when the failed statement is the profile creation after the account
\* creation succeeded.
C25_RowAtomicity ==
  /\ [](pc \in {"batch", "row", "done", "raised"}
          => \A u \in Written(store) : u.student_code # NoCode)
  /\ [][pc = "commit" /\ result.aborted => store' = store]_vars

\* the profile creation of a row has failed after its account creation
\* succeeded: the row's transaction holds an account without a profile
C25_Witness ==
  /\ pc = "commit"
  /\ result.status = "error"
  /\ result.aborted
  /\ \E u \in Written(result.st) :
       /\ u \notin store
       /\ u.email = CurrentRow.email
       /\ u.student_code = NoCode

Profiles(st) == {u \in st : u.student_code # NoCode}

\* C28: when processBulkImport has returned, the accounts of the store and
\* the profiles of the store each number summary.created more than when the
\* run began, rows created with a suffix included; every account and profile
\* the store held before the run is still there under its email and code;
\* and the finish of a skipped, updated or failed row adds and removes no
\* account and no profile.
C28_StoreGrowth ==
  /\ [](pc = "done"
          => /\ Cardinality(store)
                  = Cardinality(startStore) + results.created
             /\ Cardinality(Profiles(store))
                  = Cardinality(Profiles(startStore)) + results.created
             /\ results.created = NumberOf({"created", "created_with_suffix"})
             /\ \A v \in startStore :
                  \E u \in store : /\ u.email = v.email
                                   /\ u.student_code = v.student_code)
  /\ [][(pc = "commit" /\ result.status \in {"skipped", "updated", "error"})
          => /\ {u.email : u \in store'} = {u.email : u \in store}
             /\ {<<u.email, u.student_code>> : u \in Profiles(store')}
                  = {<<u.email, u.student_code>> : u \in Profiles(store)}]_vars

\* a returned summary counts a row created with a suffix, a row created
\* plainly and a row that was not created, and the store has grown by two
C28_Witness ==
  /\ pc = "done"
  /\ results.created = 2
  /\ NumberOf({"created_with_suffix"}) = 1
  /\ results.skipped + results.failed = 1
  /\ Cardinality(store) = Cardinality(startStore) + 2

C30_Termination ==
  /\ <>(pc \in {"done", "raised", "probed"})
  /\ [](pc = "probe" => suffix \in 1..SUFFIX_LIMIT)
  /\ [](pc \in {"row", "commit"} => i + j + 1 <= Len(records))
  /\ [](Len(txs) <= Len(records))

\* processBulkImport has returned the summary of a full row list, one of
\* whose rows was created under an email findAvailableEmail found
C30_Witness ==
  /\ pc = "done"
  /\ Len(records) = MaxRows
  /\ Len(results.details) = MaxRows
  /\ NumberOf({"created_with_suffix"}) >= 1

\* the two calls, the one that runs and the one that waits
Calls == {CallLocals, peer}

\* the details a call has recorded so far, each with its row
DetailsOf(c) ==
  {[detail |-> c.results.details[k], row |-> c.records[k], call |-> c.records] :
     k \in 1..Len(c.results.details)}

\* the summary of a call that has returned accounts for every row once
SummaryComplete(c) ==
  LET d == c.results.details
      Number(statuses) ==
        Cardinality({k \in 1..Len(d) : d[k].status \in statuses})
  IN /\ Len(d) = Len(c.records)
     /\ c.results.total = Len(c.records)
     /\ \A k \in 1..Len(d) :
          /\ d[k].rowNumber = k
          /\ d[k].status \in {"created", "created_with_suffix", "updated",
                              "skipped", "error"}
     /\ c.results.created = Number({"created", "created_with_suffix"})
     /\ c.results.updated = Number({"updated"})
     /\ c.results.skipped = Number({"skipped"})
     /\ c.results.failed = Number({"error"})

====
